---------------------------- MODULE Spec2Model ----------------------------
(***************************************************************************)
(* The nalgebra.org site repository: the site configuration, the docs      *)
(* sidebar, the documentation pages' front-matter and links, the home page *)
(* components and the rustdoc generation script.                           *)
(*                                                                         *)
(* Seven specifications share the variables:                               *)
(*   Spec          the site build: the configuration module is evaluated,  *)
(*                 the content files are read, the sidebar is resolved;    *)
(*   SpecLinks     the link validation of the pages and its report;        *)
(*   SpecAnchors   links with a #fragment followed on the built site;      *)
(*   SpecPlugins   the two docs plugin instances: pages compiled, routes   *)
(*                 reached by the navbar or by a typed path;               *)
(*   SpecHome      renders of the home page components;                    *)
(*   SpecHomeLists renders of the home page over several features arrays;  *)
(*   SpecScript    a run of the rustdoc generation script.                 *)
(***************************************************************************)
EXTENDS Integers, Sequences, FiniteSets, TLC

VARIABLES
    place,        \* where each content file of unknown name lies: [dir, name, ext]
    cfgPc,        \* number of require.resolve calls of the config evaluated
    cfg,          \* "evaluating" | "loaded" | "threw"
    loaded,       \* content files read so far
    docs,         \* metadata of the files read: set of DocMetadata records
    sbIdx,        \* number of sidebar document ids resolved
    sbBad,        \* sidebar ids found not to resolve to exactly one page
    build,        \* "running" | "ok" | "failed"
    linksSeen,    \* links validated so far: set of <<file, line>>
    broken,       \* links found broken: set of <<file, line>>
    linkReport,   \* "collecting" | "clean" | "silent" | "logged" | "threw"
    visit,        \* the fragment link a reader followed last: << >> or <<file, line>>
    landed,       \* where it led: "none" | "heading" | "top" | "nopage" | "unknown"
    location,     \* the path a reader requested last; "" before any request
    servedBy,     \* ids of the docs plugin instances whose routes hold that path
    compiled,     \* the page compiled last: << >> or << [file, owners, math, out] >>
    siteConfig,   \* the exported site configuration, as the framework holds it
    sidebars,     \* the exported docs sidebar tree
    features,     \* the home page's module-level feature descriptor array
    homePc,       \* "idle" | "map" | "close": where a render of Home stands
    homeCtx,      \* the context the render in progress got
    idx,          \* index of the next descriptor features.map visits
    row,          \* the Feature elements produced so far by the render
    outputs,      \* completed renders of Home, in order: [ctx, out] records
    featureOut,   \* result of the last separate render of a Feature
    shPc,         \* index of the script's next command; Len(Script) + 1 when done
    cwd,          \* the script's working directory: "site" | "nalgebra" | "elsewhere"
    oldpwd,       \* OLDPWD: a directory, or "unset"
    shVars,       \* the script's variables: out_dir, nalgebra_dir
    hasCheckout,  \* whether ../nalgebra exists beside the site directory
    fs,           \* the directories the script can touch: path -> [exists, items]
    failed,       \* indexes of the commands that ended with a non-zero status
    printed,      \* the lines echoed so far
    rmLog,        \* the rm commands run: <<working directory, path, line>>
    ran           \* the commands run so far, in order: [line, op, cwd, target, ok]

buildVars == <<cfgPc, cfg, loaded, docs, sbIdx, sbBad, build>>
linkVars == <<linksSeen, broken, linkReport, visit, landed, location, servedBy, compiled>>
exported == <<siteConfig, sidebars>>
homeVars == <<features, homePc, homeCtx, idx, row, outputs, featureOut>>
scriptVars == <<shPc, cwd, oldpwd, shVars, hasCheckout, fs, failed, printed, rmLog, ran>>
vars == <<place, buildVars, linkVars, exported, homeVars, scriptVars>>

(***************************************************************************)
(* Sequence helpers.                                                       *)
(***************************************************************************)
RECURSIVE SeqConcat(_)
SeqConcat(ss) == IF ss = <<>> THEN <<>> ELSE Head(ss) \o SeqConcat(Tail(ss))

Range(s) == {s[i] : i \in 1..Len(s)}

(***************************************************************************)
(* The site configuration (docusaurus config module).                      *)
(***************************************************************************)
\* docusaurusConfig with the alternative its comment names for onBrokenLinks.
docusaurusConfig_Throw ==
    [ title        |-> "nalgebra",
      tagline      |-> "Linear algebra library for the Rust programming language.",
      url          |-> "https://nalgebra.org",
      baseUrl      |-> "/",
      onBrokenLinks |-> "throw",
      favicon      |-> "img/favicon.png",
      organizationName |-> "dimforge",
      projectName  |-> "nalgebra" ]

docusaurusConfig ==
    [ title        |-> "nalgebra",
      tagline      |-> "Linear algebra library for the Rust programming language.",
      url          |-> "https://nalgebra.org",
      baseUrl      |-> "/",
      onBrokenLinks |-> "error",
      favicon      |-> "img/favicon.png",
      organizationName |-> "dimforge",
      projectName  |-> "nalgebra" ]

\* const math = require('remark-math'); const katex = require('rehype-katex')
math == "remark-math"
katex == "rehype-katex"

\* communityPlugin set up over the directory and the routes of the preset's
\* docs.
communityPlugin_UnderDocs ==
    [ id |-> "community", path |-> "docs", routeBasePath |-> "docs",
      sidebarPath |-> "./sidebar_community.js",
      remarkPlugins |-> << >>, rehypePlugins |-> << >> ]

\* The docs plugin instances: the 'community' plugin and the preset's docs.
communityPlugin ==
    [ id |-> "community", path |-> "community", routeBasePath |-> "community",
      sidebarPath |-> "./sidebar_community.js",
      remarkPlugins |-> << >>, rehypePlugins |-> << >> ]

\* presetDocs serving the documentation at the site root.
presetDocs_AtRoot ==
    [ id |-> "default", path |-> "docs", routeBasePath |-> "",
      sidebarPath |-> "./sidebar_docs.js",
      remarkPlugins |-> << math >>, rehypePlugins |-> << katex >> ]

\* presetDocs with remark-math and without rehype-katex.
presetDocs_WithoutRehypeKatex ==
    [ id |-> "default", path |-> "docs", routeBasePath |-> "docs",
      sidebarPath |-> "./sidebar_docs.js",
      remarkPlugins |-> << math >>, rehypePlugins |-> << >> ]

presetDocs ==
    [ id |-> "default", path |-> "docs", routeBasePath |-> "docs",
      sidebarPath |-> "./sidebar_docs.js",
      remarkPlugins |-> << math >>, rehypePlugins |-> << katex >> ]

\* stylesheets: the style sheets loaded on every page of the site.
stylesheets == << "https://cdn.jsdelivr.net/npm/katex@0.11.0/dist/katex.min.css" >>

presetTheme == [ customCss |-> "./src/css/custom.css" ]

\* themeConfig.navbar.items: a 'doc' item, an internal 'to' item, external
\* 'href' items.
NavDoc(docId, label) ==
    [ type |-> "doc", target |-> docId, label |-> label, activeBaseRegex |-> "" ]
NavTo(to, regex, label) ==
    [ type |-> "to", target |-> to, label |-> label, activeBaseRegex |-> regex ]
NavHref(href, label) ==
    [ type |-> "href", target |-> href, label |-> label, activeBaseRegex |-> "" ]

navbarItems ==
    << NavDoc("about_nalgebra", "Docs"),
       NavTo("/community", "/community/", "Community"),
       NavHref("https://dimforge.com/blog", "Blog"),
       NavHref("https://github.com/sponsors/dimforge", "Donate"),
       NavHref("https://dimforge.com/about", "Dimforge"),
       NavHref("https://github.com/dimforge/nalgebra", "GitHub repository") >>

\* The docs plugin instances of the site, as the configuration declares them.
DocsInstances == { communityPlugin, presetDocs }

\* The instance of an id.
Instance(id) == CHOOSE inst \in DocsInstances : inst.id = id

\* A path as the segments after the site root, and as it is written.
RECURSIVE JoinPath(_)
JoinPath(segs) ==
    IF segs = << >> THEN ""
    ELSE IF Len(segs) = 1 THEN segs[1]
         ELSE segs[1] \o "/" \o JoinPath(Tail(segs))

PathString(segs) == "/" \o JoinPath(segs)

\* The paths a reader can ask for: the route bases of the instances, a page
\* under each, the blog and the site root.
Requests ==
    { << >>,
      << "community" >>,
      << "community", "page" >>,
      << "docs" >>,
      << "docs", "about_nalgebra" >>,
      << "docs", "user_guide", "getting_started" >>,
      << "blog" >> }

\* The segments of a written path.
Segments(path) == CHOOSE segs \in Requests : PathString(segs) = path

\* The instances whose routes hold a path: those whose routeBasePath is the
\* path's first segment.
Serving(segs, instances) ==
    { inst.id : inst \in { inst \in instances :
                             Len(segs) >= 1 /\ segs[1] = inst.routeBasePath } }

\* Where a navbar item leads inside the site: a 'to' item to its path, a
\* 'doc' item to the document's route under the preset docs' routeBasePath.
NavPath(item) ==
    IF item.type = "to" THEN item.target
    ELSE PathString(<< presetDocs.routeBasePath, item.target >>)

\* The style sheet of a package version on the jsdelivr CDN.
CdnUrl(pkg, version, file) ==
    "https://cdn.jsdelivr.net/npm/" \o pkg \o "@" \o version \o "/" \o file

\* The KaTeX style sheets of the releases around the one the site names.
KatexStylesheets ==
    { CdnUrl("katex", v, "dist/katex.min.css") : v \in { "0.10.2", "0.11.0", "0.11.1", "0.12.0" } }

\* What becomes of the $-delimited math of a page compiled by an instance:
\* remark-math makes math nodes of it, rehype-katex turns them into KaTeX
\* markup, and the KaTeX style sheet lays the markup out.
RenderMath(inst, sheets) ==
    IF math \notin Range(inst.remarkPlugins) THEN "raw"
    ELSE IF katex \notin Range(inst.rehypePlugins) THEN "unrendered"
         ELSE IF Range(sheets) \cap KatexStylesheets = {} THEN "unstyled"
              ELSE "typeset"

\* ConfigRequires with the docs sidebar under the framework's default name.
ConfigRequires_DefaultSidebarName ==
    << communityPlugin.sidebarPath, "./sidebars.js", presetTheme.customCss >>

\* The require.resolve calls of the config module, in evaluation order.
ConfigRequires ==
    << communityPlugin.sidebarPath, presetDocs.sidebarPath, presetTheme.customCss >>

\* Files of the repository at hand, relative to the site directory.
SourceFiles == { "./sidebar_docs.js", "./README.md",
                "./docs/user_guide/decompositions_and_lapack.mdx",
                "./docs/user_guide/nalgebra_glm.mdx" }

\* Files the configuration names that are not at hand: they are taken to
\* exist, as the specification requires of every referenced file.
ReferencedFiles == { "./sidebar_community.js", "./src/css/custom.css" }

RepoFiles == SourceFiles \cup ReferencedFiles

\* require.resolve(p): the path when the file exists, a throw otherwise.
RequireResolve(p) == IF p \in RepoFiles THEN "resolved" ELSE "threw"

(***************************************************************************)
(* The docs sidebar (sidebar_docs.js).                                     *)
(***************************************************************************)
Doc(id) == [type |-> "doc", id |-> id]
ExtLink(label, href) == [type |-> "link", label |-> label, href |-> href]

\* UserGuideItems with the entry the source leaves in a comment.
UserGuideItems_WithQuickReference ==
    << Doc("user_guide/getting_started"),
       Doc("user_guide/quick_reference"),
       Doc("user_guide/vectors_and_matrices"),
       Doc("user_guide/decompositions_and_lapack"),
       Doc("user_guide/points_and_transformations"),
       Doc("user_guide/projections"),
       Doc("user_guide/cg_recipes"),
       Doc("user_guide/nalgebra_glm"),
       Doc("user_guide/performance_tricks"),
       Doc("user_guide/wasm_and_embedded_targets"),
       Doc("user_guide/generic_programming") >>

UserGuideItems ==
    << Doc("user_guide/getting_started"),
       Doc("user_guide/vectors_and_matrices"),
       Doc("user_guide/decompositions_and_lapack"),
       Doc("user_guide/points_and_transformations"),
       Doc("user_guide/projections"),
       Doc("user_guide/cg_recipes"),
       Doc("user_guide/nalgebra_glm"),
       Doc("user_guide/performance_tricks"),
       Doc("user_guide/wasm_and_embedded_targets"),
       Doc("user_guide/generic_programming") >>

ApiDocumentationItems ==
    << ExtLink("nalgebra", "https://docs.rs/nalgebra"),
       ExtLink("nalgebra-glm", "https://docs.rs/nalgebra-glm"),
       ExtLink("nalgebra-lapack", "https://docs.rs/nalgebra-lapack") >>

sidebar_docs ==
    << Doc("about_nalgebra"),
       [type |-> "category", label |-> "User Guide", items |-> UserGuideItems],
       [type |-> "category", label |-> "API documentation",
        items |-> ApiDocumentationItems],
       Doc("faq") >>

\* The document ids of a list of sidebar items, in order (categories opened).
ItemDocIds(item) ==
    IF item.type = "doc" THEN << item.id >>
    ELSE IF item.type = "category"
         THEN SeqConcat([i \in 1..Len(item.items) |->
                 IF item.items[i].type = "doc" THEN << item.items[i].id >> ELSE <<>>])
         ELSE <<>>

SidebarDocIds(tree) == SeqConcat([i \in 1..Len(tree) |-> ItemDocIds(tree[i])])

(***************************************************************************)
(* The content files.  A file is the sequence of its significant lines, in *)
(* order, each with its line number: '---' fences, front-matter keys,      *)
(* headings, links.  Prose, code and tables between them are left out.     *)
(***************************************************************************)
Fence(ln) == [ln |-> ln, k |-> "fence"]
Key(ln, key, val) == [ln |-> ln, k |-> "key", key |-> key, val |-> val]
Heading(ln, lvl, words) == [ln |-> ln, k |-> "head", lvl |-> lvl, words |-> words]
\* [text](path#frag) with a relative path: dot is the './' prefix, ext is ".mdx"
\* for a file reference and "/" for a route reference.
Link(ln, dot, base, ext, frag, sep) ==
    [ln |-> ln, k |-> "link", dot |-> dot, base |-> base, ext |-> ext,
     frag |-> frag, sep |-> sep]
\* [text](#frag): a link into the same page.
Anchor(ln, frag, sep) == [ln |-> ln, k |-> "anchor", frag |-> frag, sep |-> sep]
\* ![alt](/img/x.svg): an image under the site root.
Image(ln, file) == [ln |-> ln, k |-> "img", file |-> file]

decompositions_and_lapack_mdx ==
    << Fence(1),
       Key(2, "id", "decompositions_and_lapack"),
       Key(3, "title", "Decompositions and Lapack"),
       Key(4, "sidebar_label", "Decompositions and Lapack"),
       Fence(5),
       Link(12, TRUE, "decompositions_and_lapack", ".mdx",
            <<"linear", "system", "resolution">>, "-"),
       Link(17, TRUE, "decompositions_and_lapack", ".mdx",
            <<"lapack", "integration">>, "-"),
       Heading(46, 2, <<"Cholesky", "decomposition">>),
       Image(64, "cholesky.svg"),
       Heading(78, 2, <<"QR">>),
       Image(88, "QR.svg"),
       Heading(104, 2, <<"LU", "with", "partial", "or", "full", "pivoting">>),
       Image(125, "LU.svg"),
       Heading(143, 2, <<"Hessenberg", "decomposition">>),
       Image(156, "hessenberg.svg"),
       Heading(167, 2, <<"Schur", "decomposition">>),
       Image(186, "real_schur.svg"),
       Heading(196, 2, <<"Eigendecomposition", "of", "a", "hermitian", "matrix">>),
       Image(208, "symmetric_eigen.svg"),
       Heading(216, 2, <<"Singular", "Value", "Decomposition">>),
       Image(228, "SVD.svg"),
       Heading(239, 1, <<"Linear", "system", "resolution">>),
       Heading(294, 1, <<"Lapack", "integration">>),
       Heading(319, 2, <<"Setting", "up", "nalgebra-lapack">>),
       Heading(346, 1, <<"Web", "assembly", "and", "embedded", "programming">>),
       Anchor(354, <<"trigonometry", "and", "power", "functions">>, "_"),
       Heading(357, 2, <<"For", "browser", "applications">>),
       Heading(370, 2, <<"For", "embedded", "development">>),
       Heading(371, 3, <<"Compiling", "without", "standard", "library">>),
       Heading(372, 3, <<"Trigonometry", "and", "power", "functions">>) >>

nalgebra_glm_mdx ==
    << Fence(1),
       Key(2, "id", "nalgebra_glm"),
       Key(3, "title", "The nalgebra-glm crate"),
       Key(4, "sidebar_label", "The nalgebra-glm crate"),
       Fence(5),
       Heading(16, 2, <<"Getting", "started">>),
       Heading(35, 3, <<"Main", "differences", "compared", "to", "GLM">>),
       Link(56, TRUE, "nalgebra_glm", ".mdx", <<"conversions">>, "-"),
       Heading(58, 3, <<"Should", "I", "use", "nalgebra", "or", "nalgebra-glm?">>),
       Link(75, FALSE, "nalgebra_glm", ".mdx", <<"conversions">>, "-"),
       Heading(78, 1, <<"Features", "overview">>),
       Link(84, TRUE, "points_and_transformations", "/", <<"transformations">>, "-"),
       Heading(87, 3, <<"Vector", "and", "matrix", "construction">>),
       Heading(102, 3, <<"Swizzling">>),
       Heading(119, 3, <<"Conversions">>),
       Fence(148),
       Key(149, "id", "vectors_and_matrices"),
       Key(150, "title", "Vectors and matrices"),
       Key(151, "sidebar_label", "Vectors and matrices"),
       Fence(152),
       Heading(163, 2, <<"The", "generic", "Matrix", "type">>),
       Heading(236, 2, <<"Matrix", "construction">>),
       Link(366, TRUE, "performance_tricks", ".mdx", <<"the", "unit", "wrapper">>, "-"),
       Heading(379, 2, <<"Matrix", "operations">>),
       Heading(475, 2, <<"Matrix", "element", "modification">>),
       Heading(508, 2, <<"Matrix", "views">>),
       Link(520, TRUE, "vectors_and_matrices", ".mdx", <<"matrix", "construction">>, "_"),
       Image(544, "fixed_views.svg"),
       Image(562, "dynamic_views.svg"),
       Image(583, "views_with_strides.svg"),
       Image(596, "view_clone_owned.svg"),
       Heading(600, 2, <<"Matrix", "resizing">>),
       Link(602, TRUE, "vectors_and_matrices", ".mdx", <<"matrix", "views">>, "-"),
       Image(649, "resizing.svg") >>

\* The page declaring id generic_programming (file name not known).
generic_programming_page ==
    << Fence(1),
       Key(2, "id", "generic_programming"),
       Key(3, "title", "Generic programming"),
       Key(4, "sidebar_label", "Generic programming"),
       Fence(5),
       Heading(22, 2, <<"Genericity", "wrt.", "scalars">>),
       Heading(63, 2, <<"Genericity", "wrt.", "dimension", "and", "allocation", "type">>),
       Heading(79, 3, <<"Functions">>),
       Heading(172, 3, <<"Struct">>),
       Heading(220, 3, <<"Trait">>),
       Heading(294, 3, <<"Matrix">>),
       Heading(354, 3, <<"Vectors", "and", "Matrices">>) >>

\* A 'Web assembly and embedded programming' page (file name not known).
wasm_page_a ==
    << Heading(1, 1, <<"Web", "assembly", "and", "embedded", "programming">>),
       Anchor(6, <<"for", "browser", "applications">>, "-"),
       Anchor(8, <<"for", "embedded", "development">>, "-"),
       Heading(10, 2, <<"For", "browser", "applications">>),
       Heading(24, 2, <<"For", "embedded", "development">>),
       Heading(35, 3, <<"Compiling", "without", "standard", "library">>),
       Anchor(52, <<"trigonometry", "and", "power", "functions">>, "-"),
       Heading(65, 3, <<"Trigonometry", "and", "power", "functions">>) >>

\* A shorter 'Web assembly and embedded programming' page (file name not known).
wasm_page_b ==
    << Heading(1, 1, <<"Web", "assembly", "and", "embedded", "programming">>),
       Anchor(6, <<"for", "browser", "applications">>, "-"),
       Anchor(8, <<"for", "embedded", "development">>, "-"),
       Heading(10, 2, <<"For", "browser", "applications">>),
       Heading(24, 2, <<"For", "embedded", "development">>),
       Heading(35, 3, <<"Compiling", "without", "standard", "library">>) >>

\* The content files at hand.
KnownContentFiles ==
    { "docs/user_guide/decompositions_and_lapack.mdx",
      "docs/user_guide/nalgebra_glm.mdx",
      "unnamed/part_002", "unnamed/part_003", "unnamed/part_004" }

UnnamedFiles == { "unnamed/part_002", "unnamed/part_003", "unnamed/part_004" }

FileLines(f) ==
    CASE f = "docs/user_guide/decompositions_and_lapack.mdx" -> decompositions_and_lapack_mdx
      [] f = "docs/user_guide/nalgebra_glm.mdx" -> nalgebra_glm_mdx
      [] f = "unnamed/part_002" -> generic_programming_page
      [] f = "unnamed/part_003" -> wasm_page_a
      [] f = "unnamed/part_004" -> wasm_page_b

(***************************************************************************)
(* Pages the sidebar and the links name whose content is not at hand: each *)
(* is taken to exist with the front-matter the specification gives every  *)
(* content file (id, title, sidebar_label), the id being its name.         *)
(***************************************************************************)
AssumedPages ==
    { [file |-> "docs/about_nalgebra", dir |-> "", name |-> "about_nalgebra"],
      [file |-> "docs/faq", dir |-> "", name |-> "faq"],
      [file |-> "docs/user_guide/getting_started", dir |-> "user_guide",
       name |-> "getting_started"],
      [file |-> "docs/user_guide/points_and_transformations", dir |-> "user_guide",
       name |-> "points_and_transformations"],
      [file |-> "docs/user_guide/projections", dir |-> "user_guide",
       name |-> "projections"],
      [file |-> "docs/user_guide/cg_recipes", dir |-> "user_guide",
       name |-> "cg_recipes"],
      [file |-> "docs/user_guide/performance_tricks", dir |-> "user_guide",
       name |-> "performance_tricks"] }

AssumedFiles == { p.file : p \in AssumedPages }

AssumedPage(f) == CHOOSE p \in AssumedPages : p.file = f

AssumedLines(f) ==
    << Fence(1),
       Key(2, "id", AssumedPage(f).name),
       Key(3, "title", AssumedPage(f).name),
       Key(4, "sidebar_label", AssumedPage(f).name),
       Fence(5) >>

ContentFiles == KnownContentFiles \cup AssumedFiles

Lines(f) == IF f \in KnownContentFiles THEN FileLines(f) ELSE AssumedLines(f)

(***************************************************************************)
(* The '$' signs of the content files.  A line with '$' in running text     *)
(* holds $-delimited math; a '$' inside a fenced code block is code (a     *)
(* shell prompt, a mangled symbol) and is no math.                         *)
(***************************************************************************)
InText(ln) == [ ln |-> ln, code |-> FALSE ]
InCode(ln) == [ ln |-> ln, code |-> TRUE ]

DollarLines(f) ==
    CASE f = "docs/user_guide/decompositions_and_lapack.mdx" ->
            { InText(n) : n \in (22..29) \cup { 48, 49 } \cup (70..71) \cup (73..76)
                               \cup (79..81) \cup (94..96) \cup (99..101)
                               \cup { 106, 107, 113, 116 } \cup (132..134)
                               \cup (138..140) \cup (144..146) \cup (162..165)
                               \cup (168..170) \cup { 180, 181, 194 }
                               \cup (197..200) \cup { 202, 214, 218, 224, 237 }
                               \cup { 241, 242 } \cup (304..310) }
            \cup { InCode(n) : n \in { 363, 364, 400, 402 } }
      [] f = "unnamed/part_003" -> { InCode(n) : n \in { 17, 18, 94, 96 } }
      [] f = "unnamed/part_004" -> { InCode(n) : n \in { 17, 18 } }
      [] OTHER -> { }

\* Whether a content file holds $-delimited math.
HasMath(f) == \E d \in DollarLines(f) : ~d.code

\* The directory of the site a content file lies under: every content file
\* followed here lies under 'docs', the files of unknown name included (the
\* docs sidebar names them).
ContentRoot(f) == "docs"

\* The instances that read a content file: those whose path is its directory.
Owners(f) == { inst.id : inst \in { inst \in DocsInstances : inst.path = ContentRoot(f) } }

\* A content file compiled to a page: by the one instance that reads it, its
\* math going through that instance's plugins; no page without exactly one.
Compile(f) ==
    [ file    |-> f,
      owners  |-> Owners(f),
      hasMath |-> HasMath(f),
      out     |-> IF Cardinality(Owners(f)) # 1 THEN "none"
                  ELSE IF ~HasMath(f) THEN "plain"
                       ELSE RenderMath(Instance(CHOOSE id \in Owners(f) : TRUE),
                                       stylesheets) ]

(***************************************************************************)
(* Where a content file lies under the docs path.  The two files of       *)
(* docs/user_guide are where their path says; a file of unknown name lies  *)
(* in one of the directories the sidebar uses, under a candidate name.     *)
(***************************************************************************)
UnnamedDirs == { "", "user_guide" }

UnnamedNames(f) ==
    IF f = "unnamed/part_002"
    THEN { "generic_programming" }
    ELSE { "wasm_and_embedded_targets", "wasm_and_embedded_programming" }

UnnamedExt(f) == IF f = "unnamed/part_002" THEN ".mdx" ELSE ".md"

UnnamedPlaces(f) ==
    { [dir |-> d, name |-> n, ext |-> UnnamedExt(f)] :
        d \in UnnamedDirs, n \in UnnamedNames(f) }

Place(f) ==
    CASE f = "docs/user_guide/decompositions_and_lapack.mdx" ->
            [dir |-> "user_guide", name |-> "decompositions_and_lapack", ext |-> ".mdx"]
      [] f = "docs/user_guide/nalgebra_glm.mdx" ->
            [dir |-> "user_guide", name |-> "nalgebra_glm", ext |-> ".mdx"]
      [] f \in UnnamedFiles -> place[f]
      [] OTHER ->
            [dir |-> AssumedPage(f).dir, name |-> AssumedPage(f).name, ext |-> ".mdx"]

(***************************************************************************)
(* Front-matter: the block between a '---' on the first line of the file   *)
(* and the next '---'.  Only this block is metadata; a '---' ... '---'     *)
(* block further down is body text.                                        *)
(***************************************************************************)
FenceIndexes(lines) == { i \in 1..Len(lines) : lines[i].k = "fence" }

StartsWithFence(lines) ==
    Len(lines) > 0 /\ lines[1].ln = 1 /\ lines[1].k = "fence"

\* Index of the fence closing the top block; Len + 1 when it is never closed.
ClosingFence(lines) ==
    LET after == { i \in FenceIndexes(lines) : i > 1 }
    IN  IF after = {} THEN Len(lines) + 1
        ELSE CHOOSE i \in after : \A j \in after : i <= j

\* The front-matter of a file: key -> value, the empty function without a block.
FrontMatter(lines) ==
    IF ~StartsWithFence(lines) THEN << >>
    ELSE LET c == ClosingFence(lines)
             ks == { i \in 2..(c - 1) : lines[i].k = "key" }
             keys == { lines[i].key : i \in ks }
         IN  [ key \in keys |->
                 LET last == CHOOSE i \in ks :
                        /\ lines[i].key = key
                        /\ \A j \in ks : lines[j].key = key => j <= i
                 IN  lines[last].val ]

\* First index of the body.
BodyStart(lines) ==
    IF StartsWithFence(lines) THEN ClosingFence(lines) + 1 ELSE 1

\* Lines of the body that open a further '---' key ... '---' block.
LaterBlocks(lines) ==
    { lines[i].ln : i \in { i \in FenceIndexes(lines) :
        /\ i >= BodyStart(lines)
        /\ \E j \in FenceIndexes(lines) :
             /\ j > i + 1
             /\ \A m \in (i + 1)..(j - 1) : lines[m].k = "key"
             /\ lines[j].ln = lines[i].ln + (j - i) } }

\* What the docs plugin makes of a content file: the id is the directory
\* joined to the declared id, or to the file name when none is declared.
DocMetadata(f) ==
    LET lines == Lines(f)
        fm == FrontMatter(lines)
        pl == Place(f)
    IN  [ file  |-> f,
          dir   |-> pl.dir,
          name  |-> pl.name,
          ext   |-> pl.ext,
          base  |-> IF "id" \in DOMAIN fm THEN fm["id"] ELSE pl.name,
          hasFM |-> StartsWithFence(lines),
          keys  |-> DOMAIN fm,
          later |-> LaterBlocks(lines) ]

\* A document id: 'dir/base', or 'base' at the docs root.
DocId(d) == IF d.dir = "" THEN d.base ELSE d.dir \o "/" \o d.base

(***************************************************************************)
(* Link validation.                                                        *)
(***************************************************************************)
\* The relative links of a content file: <<file, line>> pairs.
RelativeLinks(f) ==
    { << f, Lines(f)[i].ln >> : i \in { i \in 1..Len(Lines(f)) : Lines(f)[i].k = "link" } }

AllRelativeLinks == UNION { RelativeLinks(f) : f \in ContentFiles }

LinkAt(f, ln) ==
    LET lines == Lines(f)
    IN  lines[CHOOSE i \in 1..Len(lines) : lines[i].ln = ln]

\* The pages a relative link's path names, among the pages `pages`: the link is
\* resolved from the directory of the file that holds it; 'x.mdx' names the file
\* of that name, 'x/' the page routed there.
LinkTargets(f, ln, pages) ==
    LET l == LinkAt(f, ln)
        dir == Place(f).dir
    IN  { p \in pages :
            /\ p.dir = dir
            /\ IF l.ext = "/" THEN p.base = l.base
               ELSE p.name = l.base /\ p.ext = l.ext }

LinkResolves(f, ln, pages) == LinkTargets(f, ln, pages) # {}

\* The framework's report of a message under a reporting severity: only
\* 'throw' raises; 'log', 'warn' and 'error' print at that level.
reportMessage(severity) ==
    CASE severity = "ignore" -> "silent"
      [] severity \in { "log", "warn", "error" } -> "logged"
      [] severity = "throw" -> "threw"

\* The end of link validation: nothing to report without a broken link,
\* otherwise the report under the configured onBrokenLinks.
handleBrokenLinks(brokenLinks, onBrokenLinks) ==
    IF brokenLinks = {} THEN "clean" ELSE reportMessage(onBrokenLinks)

(***************************************************************************)
(* Heading anchors.  The framework gives every heading an id, its slug:     *)
(* the heading text in lower case, punctuation dropped, the words joined by *)
(* '-', with '-<n>' appended to the n-th repetition of a slug in a page.    *)
(***************************************************************************)
RECURSIVE Join(_, _)
Join(words, sep) ==
    IF words = << >> THEN ""
    ELSE IF Len(words) = 1 THEN words[1]
         ELSE words[1] \o sep \o Join(Tail(words), sep)

\* The words of the headings that are not their own slug form.
SlugForm ==
    [ w \in { "Cholesky", "QR", "LU", "Hessenberg", "Schur", "Eigendecomposition",
              "Singular", "Value", "Decomposition", "Linear", "Lapack", "Setting",
              "Web", "For", "Compiling", "Trigonometry", "Getting", "Main", "GLM",
              "Should", "I", "nalgebra-glm?", "Features", "Vector", "Swizzling",
              "Conversions", "The", "Matrix", "Genericity", "wrt.", "Functions",
              "Struct", "Trait", "Vectors", "Matrices" } |->
        CASE w = "Cholesky" -> "cholesky" [] w = "QR" -> "qr" [] w = "LU" -> "lu"
          [] w = "Hessenberg" -> "hessenberg" [] w = "Schur" -> "schur"
          [] w = "Eigendecomposition" -> "eigendecomposition"
          [] w = "Singular" -> "singular" [] w = "Value" -> "value"
          [] w = "Decomposition" -> "decomposition" [] w = "Linear" -> "linear"
          [] w = "Lapack" -> "lapack" [] w = "Setting" -> "setting"
          [] w = "Web" -> "web" [] w = "For" -> "for"
          [] w = "Compiling" -> "compiling" [] w = "Trigonometry" -> "trigonometry"
          [] w = "Getting" -> "getting" [] w = "Main" -> "main" [] w = "GLM" -> "glm"
          [] w = "Should" -> "should" [] w = "I" -> "i"
          [] w = "nalgebra-glm?" -> "nalgebra-glm" [] w = "Features" -> "features"
          [] w = "Vector" -> "vector" [] w = "Swizzling" -> "swizzling"
          [] w = "Conversions" -> "conversions" [] w = "The" -> "the"
          [] w = "Matrix" -> "matrix" [] w = "Genericity" -> "genericity"
          [] w = "wrt." -> "wrt" [] w = "Functions" -> "functions"
          [] w = "Struct" -> "struct" [] w = "Trait" -> "trait"
          [] w = "Vectors" -> "vectors" [] w = "Matrices" -> "matrices" ]

SlugWord(w) == IF w \in DOMAIN SlugForm THEN SlugForm[w] ELSE w

\* The slug of a heading text, before repetitions are numbered.
BaseSlug(words) == Join([ i \in 1..Len(words) |-> SlugWord(words[i]) ], "-")

\* The indexes of the headings of a file's body.
HeadingIndexes(f) ==
    { i \in 1..Len(Lines(f)) : Lines(f)[i].k = "head" /\ i >= BodyStart(Lines(f)) }

\* The id of the heading at index i of a file.
HeadingId(f, i) ==
    LET base == BaseSlug(Lines(f)[i].words)
        before == { j \in HeadingIndexes(f) :
                      j < i /\ BaseSlug(Lines(f)[j].words) = base }
    IN  IF before = {} THEN base ELSE base \o "-" \o ToString(Cardinality(before))

HeadingIds(f) == { HeadingId(f, i) : i \in HeadingIndexes(f) }

\* The links of a file that carry a #fragment: <<file, line>> pairs.
FragmentLinks(f) ==
    { << f, Lines(f)[i].ln >> :
        i \in { i \in 1..Len(Lines(f)) :
                  Lines(f)[i].k \in { "link", "anchor" } /\ Lines(f)[i].frag # << >> } }

AllFragmentLinks == UNION { FragmentLinks(f) : f \in ContentFiles }

\* The fragment of a link as it is written.
Fragment(l) == Join(l.frag, l.sep)

\* Where following a fragment link leads: to the heading with that id, to the
\* top of the target page when no heading has it, to no page when the path
\* names none; "unknown" when the target page's headings are not at hand.
FollowLink(f, ln, pages) ==
    LET l == LinkAt(f, ln)
        targets == IF l.k = "anchor" THEN { f }
                   ELSE { p.file : p \in LinkTargets(f, ln, pages) }
    IN  IF targets = {} THEN "nopage"
        ELSE LET t == CHOOSE t \in targets : TRUE
             IN  IF t \notin KnownContentFiles THEN "unknown"
                 ELSE IF Fragment(l) \in HeadingIds(t) THEN "heading" ELSE "top"

(***************************************************************************)
(* The home page module: features, Feature, Home.                          *)
(***************************************************************************)
featuresLiteral ==
    << [ title |-> "Vectors and matrices",
         imageUrl |-> "img/lego.svg",
         description |-> "The fundamental building blocks of linear algebra: heap or stack-allocated vectors and matrices parametrized by their dimensions." ],
       [ title |-> "Decompositions and Lapack",
         imageUrl |-> "img/decomposition.svg",
         description |-> "Compute matrix decompositions, and solutions to linear systems. Benefit from efficient Rust implementations, or Lapack bindings." ],
       [ title |-> "Points and transformations",
         imageUrl |-> "img/rotation.svg",
         description |-> "Strongly typed geometric entities like points, rotation matrices, quaternions, isometries, similarities, projections, etc." ],
       [ title |-> "nalgebra-glm, for computer graphics",
         imageUrl |-> "img/logo_glm.svg",
         description |-> "Use the nalgebra-glm crate for a simpler, straight-to-the-point, graphics programming-oriented API. Inspired by the C++ GLM library." ],
       [ title |-> "Wasm and Embedded programming",
         imageUrl |-> "img/cpu.svg",
         description |-> "Use and compile nalgebra for browser applications or embedded targets that do not support the Rust standard library." ],
       [ title |-> "Forever free and Open-Source",
         imageUrl |-> "img/undraw_open_source.svg",
         description |-> "Built with a FOSS mindset, we aim to empower the Rust and web communities with an efficient linear algebra library." ] >>

\* The contexts useDocusaurusContext() hands to a render: the site's configuration,
\* a context without siteConfig, the configuration served under a sub-path.
ContextChoices == { "site", "empty", "subpath" }

Context(c, held) ==
    CASE c = "site" -> [ siteConfig |-> << held >> ]
      [] c = "empty" -> [ siteConfig |-> << >> ]
      [] c = "subpath" -> [ siteConfig |-> << [held EXCEPT !.baseUrl = "/nalgebra/"] >> ]

\* ContextSiteConfig with the site's configuration as the default.
ContextSiteConfig_DefaultsToSite(ctx) ==
    IF ctx.siteConfig = << >> THEN docusaurusConfig ELSE ctx.siteConfig[1]

\* const {siteConfig = {}} = context
ContextSiteConfig(ctx) ==
    IF ctx.siteConfig = << >> THEN << >> ELSE ctx.siteConfig[1]

\* A field of a record read as JavaScript reads it: undefined when absent.
Field(rec, k) == IF k \in DOMAIN rec THEN rec[k] ELSE "undefined"

\* useBaseUrl(url): the url under the site's baseUrl ('/' by default); a falsy
\* url is returned as it is.
useBaseUrl(url, ctx) ==
    LET sc == ContextSiteConfig(ctx)
        baseUrl == IF "baseUrl" \in DOMAIN sc THEN sc.baseUrl ELSE "/"
    IN  IF url = "" THEN url ELSE baseUrl \o url

\* Feature rendering the image block whatever the resolved URL.
Feature_AlwaysImage(props, ctx) ==
    [ className |-> "col col--4 feature",
      img |-> << [ src |-> useBaseUrl(props.imageUrl, ctx), alt |-> props.title ] >>,
      h3  |-> props.title,
      p   |-> props.description ]

\* Feature({imageUrl, title, description}): the cell's markup.
Feature(props, ctx) ==
    LET imgUrl == useBaseUrl(props.imageUrl, ctx)
    IN  [ className |-> "col col--4 feature",
          img |-> IF imgUrl # "" THEN << [ src |-> imgUrl, alt |-> props.title ] >>
                  ELSE << >>,
          h3  |-> props.title,
          p   |-> props.description ]

\* FeatureElement with the key drawn from a counter that outlives the render.
FeatureElement_CountingKey(i, props, ctx) ==
    [ key |-> Len(outputs) * Len(features) + i, props |-> props,
      out |-> Feature(props, ctx) ]

\* <Feature key={idx} {...props} />: the element features.map makes of one
\* descriptor, and the markup React renders for it.
FeatureElement(i, props, ctx) ==
    [ key |-> i, props |-> props, out |-> Feature(props, ctx) ]

\* HomeEnter storing the page title into the configuration it was handed.
HomeEnter_WritesTitle(ctx, arr) ==
    [ ctx   |-> IF ctx.siteConfig = << >> THEN ctx
                ELSE [ siteConfig |-> << [ ctx.siteConfig[1] EXCEPT
                          !.title = @ \o " linear-algebra library" ] >> ],
      title |-> Field(ContextSiteConfig(ctx), "title") \o " linear-algebra library",
      enter |-> Len(arr) > 0 ]

\* HomeEnter without the guard of the features section.
HomeEnter_AlwaysEnters(ctx, arr) ==
    [ ctx   |-> ctx,
      title |-> Field(ContextSiteConfig(ctx), "title") \o " linear-algebra library",
      enter |-> TRUE ]

\* The prologue of Home: the hooks are called and the context destructured.
\* ctx is the context as Home leaves it, enter the guard of the features section.
HomeEnter(ctx, arr) ==
    [ ctx   |-> ctx,
      title |-> Field(ContextSiteConfig(ctx), "title") \o " linear-algebra library",
      enter |-> Len(arr) > 0 ]

\* MapStep visiting the descriptors from the last to the first.
MapStep_Backwards(arr, r, i, ctx) ==
    [ features |-> arr,
      row      |-> Append(r, FeatureElement(i, arr[Len(arr) - i], ctx)),
      idx      |-> i + 1 ]

\* MapStep clearing the imageUrl of the descriptor it visits, in the array.
MapStep_Consuming(arr, r, i, ctx) ==
    [ features |-> [ k \in 1..Len(arr) |->
                       IF k = i + 1 THEN [ arr[k] EXCEPT !.imageUrl = "" ] ELSE arr[k] ],
      row      |-> Append(r, FeatureElement(i, arr[i + 1], ctx)),
      idx      |-> i + 1 ]

\* One call of the features.map callback: the array as the call leaves it, the
\* row with the new element, the next index.
MapStep(arr, r, i, ctx) ==
    [ features |-> arr,
      row      |-> Append(r, FeatureElement(i, arr[i + 1], ctx)),
      idx      |-> i + 1 ]

\* The markup Home returns.
HomeMarkup(ctx, entered, r) ==
    [ layoutTitle   |-> HomeEnter(ctx, << >>).title,
      layoutDescription |-> "Fast and cross-platform linear-algebra library",
      logo          |-> "img/logo_nalgebra.svg",
      subtitle      |-> Field(ContextSiteConfig(ctx), "tagline"),
      getStarted    |-> useBaseUrl("docs/user_guide/getting_started", ctx),
      section       |-> IF entered THEN << r >> ELSE << >> ]

\* Renders of Home a run makes.
MaxRenders == 3

(***************************************************************************)
(* The rustdoc generation script (the sh script at the end of README.md).  *)
(* No command's exit status is tested: every command runs, in order.       *)
(***************************************************************************)
Cmd(line, op, arg) == [ line |-> line, op |-> op, arg |-> arg ]

\* Script with the copy of the nalgebra pass placed before the removal of the
\* previous output directory.
Script_CopyBeforeRemove ==
    << Cmd(35, "assign", [ var |-> "out_dir", val |-> << "docs", "rustdoc" >> ]),
       Cmd(36, "assign", [ var |-> "nalgebra_dir", val |-> << "..", "nalgebra" >> ]),
       Cmd(38, "echo", "Generating the documentation..."),
       Cmd(39, "cd", "nalgebra_dir"),
       Cmd(39, "rm-r", << "target", "doc" >>),
       Cmd(39, "cargo-doc", "nalgebra"),
       Cmd(40, "cd-", ""),
       Cmd(41, "cp-r", [ from |-> << "target", "doc" >>, to |-> "out_dir" ]),
       Cmd(42, "rm-rf", << "docs", "rustdoc" >>),
       Cmd(44, "echo", "... documentation for nalgebra generated!"),
       Cmd(46, "fix_rustdoc", << "rustdoc", "rustdoc_nalgebra" >>),
       Cmd(49, "echo", "Generating the documentation..."),
       Cmd(50, "assign", [ var |-> "out_dir", val |-> << "docs", "rustdoc_glm" >> ]),
       Cmd(52, "cd", "nalgebra_dir"),
       Cmd(52, "rm-r", << "target", "doc" >>),
       Cmd(52, "cargo-doc", "nalgebra-glm"),
       Cmd(53, "cd-", ""),
       Cmd(54, "rm-rf", << "docs", "rustdoc_glm" >>),
       Cmd(55, "cp-r", [ from |-> << "target", "doc" >>, to |-> "out_dir" ]),
       Cmd(57, "echo", "... documentation for nalgebra-glm generated!"),
       Cmd(59, "fix_rustdoc", << "rustdoc_glm", "rustdoc_nalgebra_glm" >>) >>

Script ==
    << Cmd(35, "assign", [ var |-> "out_dir", val |-> << "docs", "rustdoc" >> ]),
       Cmd(36, "assign", [ var |-> "nalgebra_dir", val |-> << "..", "nalgebra" >> ]),
       Cmd(38, "echo", "Generating the documentation..."),
       Cmd(39, "cd", "nalgebra_dir"),
       Cmd(39, "rm-r", << "target", "doc" >>),
       Cmd(39, "cargo-doc", "nalgebra"),
       Cmd(40, "cd-", ""),
       Cmd(41, "rm-rf", << "docs", "rustdoc" >>),
       Cmd(42, "cp-r", [ from |-> << "target", "doc" >>, to |-> "out_dir" ]),
       Cmd(44, "echo", "... documentation for nalgebra generated!"),
       Cmd(46, "fix_rustdoc", << "rustdoc", "rustdoc_nalgebra" >>),
       Cmd(49, "echo", "Generating the documentation..."),
       Cmd(50, "assign", [ var |-> "out_dir", val |-> << "docs", "rustdoc_glm" >> ]),
       Cmd(52, "cd", "nalgebra_dir"),
       Cmd(52, "rm-r", << "target", "doc" >>),
       Cmd(52, "cargo-doc", "nalgebra-glm"),
       Cmd(53, "cd-", ""),
       Cmd(54, "rm-rf", << "docs", "rustdoc_glm" >>),
       Cmd(55, "cp-r", [ from |-> << "target", "doc" >>, to |-> "out_dir" ]),
       Cmd(57, "echo", "... documentation for nalgebra-glm generated!"),
       Cmd(59, "fix_rustdoc", << "rustdoc_glm", "rustdoc_nalgebra_glm" >>) >>

\* The directories whose content is followed: <<root>> \o relative path.  The
\* root "elsewhere" stands for any directory but the site's and the checkout's;
\* what lies there is not followed, only the rm commands run there (rmLog).
FsPaths ==
    { << "nalgebra", "target", "doc" >>,
      << "site", "target", "doc" >>,
      << "site", "docs", "rustdoc" >>,
      << "site", "docs", "rustdoc_glm" >>,
      << "site", "static" >> }

Absent == [ exists |-> FALSE, items |-> {} ]
Dir(items) == [ exists |-> TRUE, items |-> items ]

\* The path a command names, from the working directory.
Resolve(dir, rel) == << dir >> \o rel

\* cd $nalgebra_dir from `dir`: the directory reached, given whether the cd
\* succeeds.  '../nalgebra' is the checkout from the site directory and from
\* the checkout itself.
CdTarget(dir) == IF dir \in { "site", "nalgebra" } THEN "nalgebra" ELSE "elsewhere"

CdCanSucceed(dir, checkout) == (dir \in { "site", "nalgebra" }) => checkout
CdCanFail(dir, checkout) == (dir \in { "site", "nalgebra" }) => ~checkout

\* RmR that reports success and leaves the path in place.
RmR_KeepsPath(fsys, path) == [ ok |-> TRUE, fs |-> fsys ]

\* rm -r path: fails when the path does not exist, removes it otherwise.
RmR(fsys, path) ==
    IF path \in DOMAIN fsys /\ fsys[path].exists
    THEN [ ok |-> TRUE, fs |-> [fsys EXCEPT ![path] = Absent] ]
    ELSE [ ok |-> FALSE, fs |-> fsys ]

\* RmRf that leaves the path in place.
RmRf_KeepsPath(fsys, path) == [ ok |-> TRUE, fs |-> fsys ]

\* rm -rf path: removes the path when it exists and succeeds either way.
RmRf(fsys, path) ==
    [ ok |-> TRUE,
      fs |-> IF path \in DOMAIN fsys THEN [fsys EXCEPT ![path] = Absent] ELSE fsys ]

\* cargo doc -p crate in the checkout: writes the crate's documentation into
\* target/doc, creating it, beside what target/doc already holds.
CargoDoc(fsys, crate) ==
    LET t == << "nalgebra", "target", "doc" >>
    IN  [fsys EXCEPT ![t] = Dir(fsys[t].items \cup { crate })]

\* What is inside a directory copied under the name of its last component.
Nested(name, items) == { name \o "/" \o x : x \in items }

\* cp -r from to: fails without the source; makes `to` a copy of `from` when
\* `to` does not exist, and copies `from` into `to` when it does.
CpR(fsys, from, to) ==
    IF ~(from \in DOMAIN fsys /\ fsys[from].exists)
    THEN [ ok |-> FALSE, fs |-> fsys ]
    ELSE IF to \notin DOMAIN fsys
         THEN [ ok |-> TRUE, fs |-> fsys ]
         ELSE IF fsys[to].exists
              THEN [ ok |-> TRUE,
                     fs |-> [fsys EXCEPT ![to] =
                               Dir(fsys[to].items
                                   \cup Nested(from[Len(from)], fsys[from].items))] ]
              ELSE [ ok |-> TRUE, fs |-> [fsys EXCEPT ![to] = Dir(fsys[from].items)] ]

\* ./fix_rustdoc.sh dir name: the script is not at hand; it is taken to
\* rewrite docs/<dir> in place.
FixRustdoc(fsys, args) == fsys

(***************************************************************************)
(* Initial states.                                                         *)
(***************************************************************************)
InitPlace == place \in [ UnnamedFiles -> UNION { UnnamedPlaces(f) : f \in UnnamedFiles } ]
                /\ \A f \in UnnamedFiles : place[f] \in UnnamedPlaces(f)

InitBuild ==
    /\ cfgPc = 0
    /\ cfg = "evaluating"
    /\ loaded = {}
    /\ docs = {}
    /\ sbIdx = 0
    /\ sbBad = {}
    /\ build = "running"

InitLinkVars ==
    /\ linksSeen = {}
    /\ broken = {}
    /\ linkReport = "collecting"
    /\ visit = << >>
    /\ landed = "none"
    /\ location = ""
    /\ servedBy = {}
    /\ compiled = << >>

InitExported ==
    /\ siteConfig = docusaurusConfig
    /\ sidebars = sidebar_docs

InitHome ==
    /\ features = featuresLiteral
    /\ homePc = "idle"
    /\ homeCtx = "site"
    /\ idx = 0
    /\ row = << >>
    /\ outputs = << >>
    /\ featureOut = << >>

\* What a directory can hold before the run: nothing (absent), or the output
\* of an earlier run.
InitScript ==
    /\ shPc = 1
    /\ cwd = "site"
    /\ oldpwd \in { "unset", "elsewhere" }
    /\ shVars = [ out_dir |-> << >>, nalgebra_dir |-> << >> ]
    /\ hasCheckout \in BOOLEAN
    /\ fs \in [ FsPaths -> { Absent, Dir({ "old" }) } ]
    /\ fs[<< "site", "static" >>] = Dir({ "old" })
    /\ ~hasCheckout => fs[<< "nalgebra", "target", "doc" >>] = Absent
    /\ failed = {}
    /\ printed = << >>
    /\ rmLog = {}
    /\ ran = << >>

\* The script's variables before a run that is not modelled.
IdleScript ==
    /\ shPc = 1
    /\ cwd = "site"
    /\ oldpwd = "unset"
    /\ shVars = [ out_dir |-> << >>, nalgebra_dir |-> << >> ]
    /\ hasCheckout = TRUE
    /\ fs = [ p \in FsPaths |-> Dir({ "old" }) ]
    /\ failed = {}
    /\ printed = << >>
    /\ rmLog = {}
    /\ ran = << >>

Init == InitPlace /\ InitBuild /\ InitLinkVars /\ InitExported /\ InitHome /\ IdleScript

(***************************************************************************)
(* Spec: the site build.                                                   *)
(***************************************************************************)
\* The config module is evaluated: its next require.resolve call.
EvalRequire ==
    /\ cfg = "evaluating"
    /\ cfgPc < Len(ConfigRequires)
    /\ IF RequireResolve(ConfigRequires[cfgPc + 1]) = "threw"
       THEN /\ cfg' = "threw"
            /\ build' = "failed"
            /\ cfgPc' = cfgPc
       ELSE /\ cfgPc' = cfgPc + 1
            /\ cfg' = IF cfgPc + 1 = Len(ConfigRequires) THEN "loaded" ELSE "evaluating"
            /\ build' = build
    /\ UNCHANGED <<place, loaded, docs, sbIdx, sbBad, linkVars, exported, homeVars, scriptVars>>

\* The docs plugin reads one of the content files at hand (in any order).
LoadDoc(f) ==
    /\ cfg = "loaded"
    /\ build = "running"
    /\ f \in KnownContentFiles \ loaded
    /\ loaded' = loaded \cup {f}
    /\ docs' = docs \cup { DocMetadata(f) }
    /\ UNCHANGED <<place, cfgPc, cfg, sbIdx, sbBad, build, linkVars, exported, homeVars, scriptVars>>

\* The docs plugin reads the content files that are taken to exist.
LoadAssumedPages ==
    /\ cfg = "loaded"
    /\ build = "running"
    /\ ~(AssumedFiles \subseteq loaded)
    /\ loaded' = loaded \cup AssumedFiles
    /\ docs' = docs \cup { DocMetadata(f) : f \in AssumedFiles }
    /\ UNCHANGED <<place, cfgPc, cfg, sbIdx, sbBad, build, linkVars, exported, homeVars, scriptVars>>

\* The pages with a document id.
PagesWithId(id, pages) == { d \in pages : DocId(d) = id }

\* The next document id of the sidebar is resolved against the pages read.
ResolveSidebarId ==
    /\ build = "running"
    /\ loaded = ContentFiles
    /\ sbIdx < Len(SidebarDocIds(sidebars))
    /\ LET id == SidebarDocIds(sidebars)[sbIdx + 1]
       IN  sbBad' = IF Cardinality(PagesWithId(id, docs)) = 1
                    THEN sbBad ELSE sbBad \cup {id}
    /\ sbIdx' = sbIdx + 1
    /\ UNCHANGED <<place, cfgPc, cfg, loaded, docs, build, linkVars, exported, homeVars, scriptVars>>

\* The sidebar is accepted, or the build fails on the ids that do not resolve.
FinishSidebar ==
    /\ build = "running"
    /\ loaded = ContentFiles
    /\ sbIdx = Len(SidebarDocIds(sidebars))
    /\ build' = IF sbBad = {} THEN "ok" ELSE "failed"
    /\ UNCHANGED <<place, cfgPc, cfg, loaded, docs, sbIdx, sbBad, linkVars, exported, homeVars, scriptVars>>

Next ==
    \/ EvalRequire
    \/ \E f \in KnownContentFiles : LoadDoc(f)
    \/ LoadAssumedPages
    \/ ResolveSidebarId
    \/ FinishSidebar

Spec == Init /\ [][Next]_vars

(***************************************************************************)
(* SpecLinks: link validation over the pages of the docs tree.             *)
(***************************************************************************)
AllPages == { DocMetadata(f) : f \in ContentFiles }

InitLinks ==
    /\ InitPlace
    /\ cfgPc = Len(ConfigRequires)
    /\ cfg = "loaded"
    /\ loaded = ContentFiles
    /\ docs = AllPages
    /\ sbIdx = 0
    /\ sbBad = {}
    /\ build = "running"
    /\ InitLinkVars
    /\ InitExported
    /\ InitHome
    /\ IdleScript

\* One relative link is validated (pages are rendered in any order).
CheckLink(f, ln) ==
    /\ linkReport = "collecting"
    /\ << f, ln >> \in AllRelativeLinks \ linksSeen
    /\ linksSeen' = linksSeen \cup { << f, ln >> }
    /\ broken' = IF LinkResolves(f, ln, docs) THEN broken ELSE broken \cup { << f, ln >> }
    /\ UNCHANGED <<place, buildVars, linkReport, visit, landed, location, servedBy, compiled,
                   exported, homeVars, scriptVars>>

\* Every link was seen: the broken ones are reported as onBrokenLinks says.
ReportBrokenLinks ==
    /\ linkReport = "collecting"
    /\ linksSeen = AllRelativeLinks
    /\ linkReport' = handleBrokenLinks(broken, siteConfig.onBrokenLinks)
    /\ build' = IF handleBrokenLinks(broken, siteConfig.onBrokenLinks) = "threw"
                THEN "failed" ELSE "ok"
    /\ UNCHANGED <<place, cfgPc, cfg, loaded, docs, sbIdx, sbBad, linksSeen, broken, visit, landed,
                   location, servedBy, compiled, exported, homeVars, scriptVars>>

NextLinks ==
    \/ \E l \in AllRelativeLinks : CheckLink(l[1], l[2])
    \/ ReportBrokenLinks

SpecLinks == InitLinks /\ [][NextLinks]_vars

(***************************************************************************)
(* SpecAnchors: a reader of the built site follows links that carry a      *)
(* #fragment, in any order.                                                *)
(***************************************************************************)
FollowFragment(f, ln) ==
    /\ << f, ln >> \in AllFragmentLinks
    /\ visit' = << f, ln >>
    /\ landed' = FollowLink(f, ln, docs)
    /\ UNCHANGED <<place, buildVars, linksSeen, broken, linkReport, location, servedBy,
                   compiled, exported, homeVars, scriptVars>>

NextAnchors == \E l \in AllFragmentLinks : FollowFragment(l[1], l[2])

SpecAnchors == InitLinks /\ [][NextAnchors]_vars

(***************************************************************************)
(* SpecPlugins: the two docs plugin instances at work: content files are   *)
(* compiled to pages, and readers reach routes by the navbar or by typing  *)
(* a path.                                                                 *)
(***************************************************************************)
\* A reader asks for a path.
Request(segs) ==
    /\ segs \in Requests
    /\ location' = PathString(segs)
    /\ servedBy' = Serving(segs, DocsInstances)
    /\ UNCHANGED <<place, buildVars, linksSeen, broken, linkReport, visit, landed, compiled,
                   exported, homeVars, scriptVars>>

\* A reader clicks the i-th navbar item, an item that leads into the site.
ClickNavbar(i) ==
    /\ i \in 1..Len(navbarItems)
    /\ navbarItems[i].type \in { "doc", "to" }
    /\ location' = NavPath(navbarItems[i])
    /\ servedBy' = Serving(Segments(NavPath(navbarItems[i])), DocsInstances)
    /\ UNCHANGED <<place, buildVars, linksSeen, broken, linkReport, visit, landed, compiled,
                   exported, homeVars, scriptVars>>

\* A content file is compiled to a page.
CompilePage(f) ==
    /\ f \in KnownContentFiles
    /\ compiled' = << Compile(f) >>
    /\ UNCHANGED <<place, buildVars, linksSeen, broken, linkReport, visit, landed, location,
                   servedBy, exported, homeVars, scriptVars>>

NextPlugins ==
    \/ \E i \in 1..Len(navbarItems) : ClickNavbar(i)
    \/ \E segs \in Requests : Request(segs)
    \/ \E f \in KnownContentFiles : CompilePage(f)

SpecPlugins == InitLinks /\ [][NextPlugins]_vars

(***************************************************************************)
(* SpecHome: renders of the home page.  React calls Home with the context  *)
(* of the moment, and may render a Feature again on its own.               *)
(***************************************************************************)
\* Home is called: hooks, destructuring, the guard of the features section.
HomeStart(c) ==
    /\ homePc = "idle"
    /\ Len(outputs) < MaxRenders
    /\ LET e == HomeEnter(Context(c, siteConfig), features)
       IN  /\ siteConfig' = IF c = "site" /\ e.ctx.siteConfig # << >>
                            THEN e.ctx.siteConfig[1] ELSE siteConfig
           /\ homePc' = IF e.enter THEN "map" ELSE "close"
    /\ homeCtx' = c
    /\ idx' = 0
    /\ row' = << >>
    /\ UNCHANGED <<place, buildVars, linkVars, sidebars, features, outputs, featureOut,
                   scriptVars>>

\* features.map visits the next descriptor.
HomeMapStep ==
    /\ homePc = "map"
    /\ idx < Len(features)
    /\ LET m == MapStep(features, row, idx, Context(homeCtx, siteConfig))
       IN  /\ features' = m.features
           /\ row' = m.row
           /\ idx' = m.idx
    /\ UNCHANGED <<place, buildVars, linkVars, exported, homePc, homeCtx, outputs, featureOut,
                   scriptVars>>

\* Home returns its markup.
HomeReturn ==
    /\ \/ homePc = "map" /\ idx >= Len(features)
       \/ homePc = "close"
    /\ outputs' = Append(outputs,
          [ ctx |-> Context(homeCtx, siteConfig),
            out |-> HomeMarkup(Context(homeCtx, siteConfig), homePc = "map", row) ])
    /\ homePc' = "idle"
    /\ UNCHANGED <<place, buildVars, linkVars, exported, features, homeCtx, idx, row, featureOut,
                   scriptVars>>

\* React renders one Feature again, with the props of a descriptor.
RenderFeature(i, c) ==
    /\ homePc = "idle"
    /\ i \in 1..Len(features)
    /\ featureOut' = << FeatureElement(i - 1, features[i], Context(c, siteConfig)).out >>
    /\ UNCHANGED <<place, buildVars, linkVars, exported, features, homePc, homeCtx, idx,
                   row, outputs, scriptVars>>

NextHome ==
    \/ \E c \in ContextChoices : HomeStart(c)
    \/ HomeMapStep
    \/ HomeReturn
    \/ \E i \in 1..Len(featuresLiteral), c \in ContextChoices : RenderFeature(i, c)

InitHomeSpec ==
    /\ place = [ f \in UnnamedFiles |->
                   [ dir |-> "user_guide", name |-> CHOOSE n \in UnnamedNames(f) : TRUE,
                     ext |-> UnnamedExt(f) ] ]
    /\ InitBuild /\ InitLinkVars /\ InitExported /\ InitHome /\ IdleScript

SpecHome == InitHomeSpec /\ [][NextHome]_vars

(***************************************************************************)
(* SpecHomeLists: renders of the home page over a features array that is   *)
(* the literal list, a one-descriptor list, a list whose descriptor has an *)
(* empty imageUrl, or the empty list.                                      *)
(***************************************************************************)
FeatureLists ==
    { << >>,
      SubSeq(featuresLiteral, 1, 1),
      << [ featuresLiteral[2] EXCEPT !.imageUrl = "" ], featuresLiteral[3] >>,
      featuresLiteral }

InitHomeLists ==
    /\ place = [ f \in UnnamedFiles |->
                   [ dir |-> "user_guide", name |-> CHOOSE n \in UnnamedNames(f) : TRUE,
                     ext |-> UnnamedExt(f) ] ]
    /\ InitBuild /\ InitLinkVars /\ InitExported /\ IdleScript
    /\ features \in FeatureLists
    /\ homePc = "idle"
    /\ homeCtx = "site"
    /\ idx = 0
    /\ row = << >>
    /\ outputs = << >>
    /\ featureOut = << >>

SpecHomeLists == InitHomeLists /\ [][NextHome]_vars

(***************************************************************************)
(* SpecScript: one run of the generation script.                           *)
(***************************************************************************)
Running == shPc \in 1..Len(Script)
Done == shPc = Len(Script) + 1
Command == Script[shPc]
notScript == <<place, buildVars, linkVars, exported, homeVars>>

\* What a command works on, its variables expanded: the directory removed or
\* copied to ($out_dir), the crate documented, the directory fix_rustdoc.sh is
\* given, the directory changed to ($nalgebra_dir).
Target(cmd) ==
    CASE cmd.op \in { "rm-r", "rm-rf" } -> cmd.arg
      [] cmd.op = "cp-r" -> shVars[cmd.arg.to]
      [] cmd.op = "cargo-doc" -> << cmd.arg >>
      [] cmd.op = "fix_rustdoc" -> << cmd.arg[1] >>
      [] cmd.op = "cd" -> shVars[cmd.arg]
      [] cmd.op = "assign" -> cmd.arg.val
      [] OTHER -> << >>

\* Step as a shell under 'set -e' would take it: the run ends at the first
\* command with a non-zero status.
Step_ExitOnFailure(ok) ==
    /\ failed' = IF ok THEN failed ELSE failed \cup { shPc }
    /\ ran' = Append(ran, [ line |-> Command.line, op |-> Command.op, cwd |-> cwd,
                            target |-> Target(Command), ok |-> ok ])
    /\ shPc' = IF ok THEN shPc + 1 ELSE Len(Script) + 1

\* The exit status of the command at shPc is recorded and the next one is run.
Step(ok) ==
    /\ failed' = IF ok THEN failed ELSE failed \cup { shPc }
    /\ ran' = Append(ran, [ line |-> Command.line, op |-> Command.op, cwd |-> cwd,
                            target |-> Target(Command), ok |-> ok ])
    /\ shPc' = shPc + 1

ShAssign ==
    /\ Running /\ Command.op = "assign"
    /\ shVars' = [shVars EXCEPT ![Command.arg.var] = Command.arg.val]
    /\ Step(TRUE)
    /\ UNCHANGED <<notScript, cwd, oldpwd, hasCheckout, fs, printed, rmLog>>

ShEcho ==
    /\ Running /\ Command.op = "echo"
    /\ printed' = Append(printed, Command.arg)
    /\ Step(TRUE)
    /\ UNCHANGED <<notScript, cwd, oldpwd, shVars, hasCheckout, fs, rmLog>>

\* cd $nalgebra_dir
ShCd ==
    /\ Running /\ Command.op = "cd"
    /\ \/ /\ CdCanSucceed(cwd, hasCheckout)
          /\ oldpwd' = cwd
          /\ cwd' = CdTarget(cwd)
          /\ Step(TRUE)
       \/ /\ CdCanFail(cwd, hasCheckout)
          /\ UNCHANGED <<cwd, oldpwd>>
          /\ Step(FALSE)
    /\ UNCHANGED <<notScript, shVars, hasCheckout, fs, printed, rmLog>>

\* rm -r target/doc, in the working directory
ShRm ==
    /\ Running /\ Command.op = "rm-r"
    /\ rmLog' = rmLog \cup { << cwd, Command.arg, Command.line >> }
    /\ IF cwd = "elsewhere"
       THEN /\ fs' = fs
            /\ \E ok \in BOOLEAN : Step(ok)
       ELSE LET r == RmR(fs, Resolve(cwd, Command.arg))
            IN  fs' = r.fs /\ Step(r.ok)
    /\ UNCHANGED <<notScript, cwd, oldpwd, shVars, hasCheckout, printed>>

\* cargo doc -p <crate> --no-deps --all-features: it can fail in the checkout
\* and fails anywhere else.
ShCargoDoc ==
    /\ Running /\ Command.op = "cargo-doc"
    /\ \/ /\ cwd = "nalgebra"
          /\ fs' = CargoDoc(fs, Command.arg)
          /\ Step(TRUE)
       \/ /\ fs' = fs
          /\ Step(FALSE)
    /\ UNCHANGED <<notScript, cwd, oldpwd, shVars, hasCheckout, printed, rmLog>>

\* cd -
ShCdBack ==
    /\ Running /\ Command.op = "cd-"
    /\ IF oldpwd = "unset"
       THEN UNCHANGED <<cwd, oldpwd>> /\ Step(FALSE)
       ELSE cwd' = oldpwd /\ oldpwd' = cwd /\ Step(TRUE)
    /\ UNCHANGED <<notScript, shVars, hasCheckout, fs, printed, rmLog>>

\* rm -rf docs/rustdoc[_glm], in the working directory
ShRmRf ==
    /\ Running /\ Command.op = "rm-rf"
    /\ rmLog' = rmLog \cup { << cwd, Command.arg, Command.line >> }
    /\ LET r == RmRf(fs, Resolve(cwd, Command.arg))
       IN  fs' = r.fs /\ Step(r.ok)
    /\ UNCHANGED <<notScript, cwd, oldpwd, shVars, hasCheckout, printed>>

\* cp -r $nalgebra_dir/target/doc $out_dir, from the working directory
ShCp ==
    /\ Running /\ Command.op = "cp-r"
    /\ IF cwd = "elsewhere"
       THEN /\ fs' = fs
            /\ \E ok \in BOOLEAN : Step(ok)
       ELSE LET r == CpR(fs, Resolve(CdTarget(cwd), Command.arg.from),
                         Resolve(cwd, shVars[Command.arg.to]))
            IN  fs' = r.fs /\ Step(r.ok)
    /\ UNCHANGED <<notScript, cwd, oldpwd, shVars, hasCheckout, printed, rmLog>>

\* ./fix_rustdoc.sh <dir> <name>: found only from the site directory, where it
\* can succeed or fail.
ShFixRustdoc ==
    /\ Running /\ Command.op = "fix_rustdoc"
    /\ \/ /\ cwd = "site"
          /\ fs' = FixRustdoc(fs, Command.arg)
          /\ Step(TRUE)
       \/ /\ fs' = fs
          /\ Step(FALSE)
    /\ UNCHANGED <<notScript, cwd, oldpwd, shVars, hasCheckout, printed, rmLog>>

NextScript ==
    \/ ShAssign
    \/ ShEcho
    \/ ShCd
    \/ ShRm
    \/ ShCargoDoc
    \/ ShCdBack
    \/ ShRmRf
    \/ ShCp
    \/ ShFixRustdoc

InitScriptSpec ==
    /\ place = [ f \in UnnamedFiles |->
                   [ dir |-> "user_guide", name |-> CHOOSE n \in UnnamedNames(f) : TRUE,
                     ext |-> UnnamedExt(f) ] ]
    /\ InitBuild /\ InitLinkVars /\ InitExported /\ InitHome /\ InitScript

SpecScript == InitScriptSpec /\ [][NextScript]_vars

(***************************************************************************)
(* The claims.                                                             *)
(***************************************************************************)

\* C1 (Spec): once the content files are read, every document id of the docs
\* sidebar is the id of exactly one page.
C1_SidebarIdsResolve ==
    loaded = ContentFiles =>
        \A id \in Range(SidebarDocIds(sidebars)) :
            Cardinality(PagesWithId(id, docs)) = 1

C4_RelativeLinksResolve == broken = {}

\* C5 (Spec): every content file read starts with a front-matter block that
\* declares id, title and sidebar_label, and holds no further block.
C5_FrontMatterOnceAtTop ==
    \A d \in docs :
        /\ d.hasFM
        /\ { "id", "title", "sidebar_label" } \subseteq d.keys
        /\ d.later = {}

\* The row of a render agrees with the descriptors, position by position.
RowMatches(r, arr) ==
    \A i \in 1..Len(r) :
        /\ i <= Len(arr)
        /\ r[i].props.title = arr[i].title
        /\ r[i].props.imageUrl = arr[i].imageUrl
        /\ r[i].props.description = arr[i].description
        /\ DOMAIN r[i].props = { "title", "imageUrl", "description" }

\* C6 (SpecHome): the row Home renders holds one Feature element per descriptor,
\* in the order of the list, the i-th with the title, imageUrl and description
\* of features[i]; a returned row holds exactly Len(features) elements.
C6_RowIsFeaturesInOrder ==
    /\ RowMatches(row, featuresLiteral)
    /\ \A k \in 1..Len(outputs) :
         outputs[k].out.section # << >> =>
            /\ Len(outputs[k].out.section[1]) = Len(featuresLiteral)
            /\ RowMatches(outputs[k].out.section[1], featuresLiteral)

\* C6 witness: a render returned a features section of six cells.
C6_SectionRendered ==
    /\ Len(outputs) >= 1
    /\ outputs[1].out.section # << >>
    /\ Len(outputs[1].out.section[1]) = 6

\* C7 (SpecHome): whatever renders of Home and Feature happened, the features
\* array is the literal list: same length, same elements, same order.
C7_FeaturesConstant == features = featuresLiteral

\* C7 witness: Home was rendered twice and a Feature once on its own.
C7_AfterRenders == Len(outputs) >= 2 /\ featureOut # << >> /\ homePc = "idle"

\* C8 (SpecHome): two completed renders of Home with the same context returned
\* the same markup, whatever was rendered between and before them.
C8_SameContextSameMarkup ==
    \A a, b \in 1..Len(outputs) :
        outputs[a].ctx = outputs[b].ctx => outputs[a].out = outputs[b].out

\* C8 witness: the first and the third render had the same context and the
\* second another one.
C8_RenderedAgain ==
    /\ Len(outputs) >= 3
    /\ outputs[1].ctx = outputs[3].ctx
    /\ outputs[2].ctx # outputs[1].ctx

\* C9 (SpecHome): the exported configuration and the exported sidebar tree stay
\* the literals they were evaluated to.
C9_ExportsNotMutated ==
    /\ siteConfig = docusaurusConfig
    /\ sidebars = sidebar_docs

\* C9 witness: a render of Home that read the site's configuration returned.
C9_HomeReadConfig ==
    /\ Len(outputs) >= 1
    /\ outputs[1].ctx = Context("site", docusaurusConfig)
    /\ outputs[1].out.subtitle = docusaurusConfig.tagline

\* Every command of the run ended with status 0.
AllSucceeded == Done /\ failed = {}

PassSteps == << "rm-r", "cargo-doc", "cd-", "rm-rf", "cp-r", "fix_rustdoc" >>

\* The steps among the commands run, in the order they were run.
RECURSIVE StepsOf(_, _)
StepsOf(r, steps) ==
    IF r = << >> THEN << >>
    ELSE IF Head(r).op \in steps THEN << Head(r).op >> \o StepsOf(Tail(r), steps)
         ELSE StepsOf(Tail(r), steps)

\* A command run that works on the crate nalgebra or on its output directory,
\* and one that works on nalgebra-glm or on its output directory.
OfNalgebraPass(e) ==
    e.target \in { << "nalgebra" >>, << "docs", "rustdoc" >>, << "rustdoc" >> }

OfGlmPass(e) ==
    e.target \in { << "nalgebra-glm" >>, << "docs", "rustdoc_glm" >>, << "rustdoc_glm" >> }

\* C11 (SpecScript): in every run, a copy into an output directory comes after
\* the rm -rf of that directory, run from the same working directory, and
\* finds the directory removed; fix_rustdoc.sh on a directory comes after the
\* copy into it; every command of the nalgebra pass comes before every
\* command of the nalgebra-glm pass; and a finished run has performed the six
\* steps rm -r, cargo doc, cd -, rm -rf, cp -r, fix_rustdoc.sh twice, in that
\* order, for nalgebra first.
C11_FixedSequence ==
    /\ \A i \in 1..Len(ran) :
         ran[i].op = "cp-r" =>
            \E j \in 1..(i - 1) :
                /\ ran[j].op = "rm-rf"
                /\ ran[j].target = ran[i].target
                /\ ran[j].cwd = ran[i].cwd
                /\ \A k \in (j + 1)..(i - 1) : ran[k].op # "cp-r"
    /\ (Running /\ Command.op = "cp-r" /\ cwd = "site") =>
            ~fs[Resolve(cwd, shVars[Command.arg.to])].exists
    /\ \A i \in 1..Len(ran) :
         ran[i].op = "fix_rustdoc" =>
            \E j \in 1..(i - 1) :
                /\ ran[j].op = "cp-r"
                /\ ran[j].target = << "docs" >> \o ran[i].target
    /\ \A i, j \in 1..Len(ran) :
         (OfNalgebraPass(ran[i]) /\ OfGlmPass(ran[j])) => i < j
    /\ Done =>
         /\ StepsOf(ran, Range(PassSteps)) = PassSteps \o PassSteps
         /\ \E i, j \in 1..Len(ran) :
               /\ i < j
               /\ ran[i].op = "fix_rustdoc" /\ OfNalgebraPass(ran[i])
               /\ ran[j].op = "rm-r"
               /\ \A k \in (j + 1)..Len(ran) :
                     ran[k].op \in { "cargo-doc", "rm-rf", "cp-r", "fix_rustdoc" }
                        => OfGlmPass(ran[k])

\* C11 witness: a run ended in which both copies and both fix_rustdoc.sh
\* succeeded.
C11_BothPassesRan ==
    /\ Done
    /\ \A i \in 1..Len(ran) : ran[i].op \in { "cp-r", "fix_rustdoc" } => ran[i].ok
    /\ fs[<< "site", "docs", "rustdoc_glm" >>].exists

\* The index of the first command of the nalgebra-glm pass (the echo of line 49).
SecondPassStart ==
    CHOOSE i \in 1..Len(Script) :
        /\ Script[i].op = "echo"
        /\ \E j \in 1..(i - 1) : Script[j].op = "fix_rustdoc"
        /\ \A j \in 1..(i - 1) : Script[j].op = "fix_rustdoc" => j = i - 1

FailedInCheckout(e) ==
    e.op \in { "cargo-doc", "rm-r" } /\ ~e.ok /\ e.cwd = "nalgebra"

\* The cargo doc of a crate failed in the checkout.
CargoDocFailed(crate) ==
    \E i \in 1..Len(ran) :
        /\ ran[i].op = "cargo-doc" /\ ran[i].target = << crate >>
        /\ ~ran[i].ok /\ ran[i].cwd = "nalgebra"

C14_DeletesOnlyItsOwnDirs ==
    /\ \A e \in rmLog :
         \/ e[1] = "nalgebra" /\ e[2] = << "target", "doc" >>
         \/ e[1] = "site" /\ e[2] \in { << "docs", "rustdoc" >>,
                                         << "docs", "rustdoc_glm" >> }
    /\ (Len(ran) > 0 /\ ran[Len(ran)].op = "cd-") => cwd = "site"

\* C15 (SpecAnchors): every link with a #fragment that a reader follows, and
\* whose target page's headings are at hand, leads to a heading of the target
\* page: the fragment is the slug id of one of its headings.
C15_FragmentsNameHeadings ==
    (visit # << >> /\ landed # "unknown") => landed = "heading"

\* C16 (SpecHomeLists): a render of Home returns a features section exactly
\* when the features list is not empty; over the literal list every render
\* returns a section of exactly six cells, and over the empty list no section
\* is returned and no cell is made.
C16_SectionIffNonEmpty ==
    /\ \A k \in 1..Len(outputs) :
         /\ (outputs[k].out.section # << >>) <=> (Len(features) > 0)
         /\ outputs[k].out.section # << >> =>
                Len(outputs[k].out.section[1]) = Len(features)
         /\ features = featuresLiteral =>
                /\ outputs[k].out.section # << >>
                /\ Len(outputs[k].out.section[1]) = 6
    /\ features = << >> => (row = << >> /\ homePc # "map")

\* C16 witness: a render of Home over the empty list returned, without a
\* features section.
C16_EmptyListRendered ==
    /\ features = << >>
    /\ Len(outputs) >= 1
    /\ outputs[1].out.section = << >>

\* A cell holds the heading and the paragraph of its descriptor, and the
\* image block exactly when the descriptor's imageUrl is not empty, the image
\* then being the URL under the context's base URL with the title as alt text.
CellMatches(cell, ctx) ==
    /\ cell.out.h3 = cell.props.title
    /\ cell.out.p = cell.props.description
    /\ (cell.out.img # << >>) <=> (cell.props.imageUrl # "")
    /\ cell.out.img # << >> =>
         /\ cell.out.img[1].alt = cell.props.title
         /\ cell.out.img[1].src \in { "/" \o cell.props.imageUrl,
                                       "/nalgebra/" \o cell.props.imageUrl }

\* C17 (SpecHomeLists): every cell Home renders holds its descriptor's title
\* as heading and description as paragraph, and an image exactly when the
\* descriptor's imageUrl is not empty; over the literal list every cell of a
\* returned grid holds an image, a heading and a paragraph.
C17_CellHoldsImageHeadingParagraph ==
    /\ \A i \in 1..Len(row) : CellMatches(row[i], Context(homeCtx, siteConfig))
    /\ \A k \in 1..Len(outputs) :
         outputs[k].out.section # << >> =>
            \A i \in 1..Len(outputs[k].out.section[1]) :
                /\ CellMatches(outputs[k].out.section[1][i], outputs[k].ctx)
                /\ features = featuresLiteral =>
                      /\ outputs[k].out.section[1][i].out.img # << >>
                      /\ outputs[k].out.section[1][i].out.h3 = featuresLiteral[i].title
                      /\ outputs[k].out.section[1][i].out.p = featuresLiteral[i].description
    /\ featureOut # << >> =>
         /\ \E i \in 1..Len(features) :
               /\ featureOut[1].h3 = features[i].title
               /\ featureOut[1].p = features[i].description
               /\ (featureOut[1].img # << >>) <=> (features[i].imageUrl # "")

\* C17 witness: a render of Home returned a grid whose first cell, made of a
\* descriptor with an empty imageUrl, has no image, and whose second has one.
C17_CellWithoutImage ==
    /\ Len(outputs) >= 1
    /\ outputs[1].out.section # << >>
    /\ Len(outputs[1].out.section[1]) = 2
    /\ outputs[1].out.section[1][1].props.imageUrl = ""
    /\ outputs[1].out.section[1][1].out.img = << >>
    /\ outputs[1].out.section[1][2].out.img # << >>

\* C18 (SpecHome): a render of Home that was started returns, with or without
\* a siteConfig in the context; without one the layout title and the subtitle
\* are made of the undefined title and tagline of an empty record; with one
\* the layout title is the configured title followed by
\* ' linear-algebra library' and the subtitle is the configured tagline.
C18_TitleAndTaglineFromContext ==
    /\ homePc # "idle" => ENABLED (HomeMapStep \/ HomeReturn)
    /\ \A k \in 1..Len(outputs) :
         IF outputs[k].ctx.siteConfig = << >>
         THEN /\ outputs[k].out.layoutTitle = "undefined linear-algebra library"
              /\ outputs[k].out.subtitle = "undefined"
         ELSE /\ outputs[k].out.layoutTitle =
                    outputs[k].ctx.siteConfig[1].title \o " linear-algebra library"
              /\ outputs[k].out.layoutTitle = "nalgebra linear-algebra library"
              /\ outputs[k].out.subtitle = outputs[k].ctx.siteConfig[1].tagline
              /\ outputs[k].out.subtitle =
                    "Linear algebra library for the Rust programming language."

\* C18 witness: Home returned once for a context without siteConfig and then
\* once for the site's context.
C18_RenderedWithoutSiteConfig ==
    /\ Len(outputs) >= 2
    /\ outputs[1].ctx.siteConfig = << >>
    /\ outputs[1].out.section # << >>
    /\ outputs[2].ctx.siteConfig = << docusaurusConfig >>

\* C19 (Spec): the document ids of the docs sidebar tree are pairwise
\* distinct: 'about_nalgebra', the ten ids of the 'User Guide' category and
\* 'faq', twelve in all, so that the ids resolved at any point of the build
\* name twelve different positions; 'user_guide/quick_reference' is not one
\* of them.
C19_SidebarIdsDistinct ==
    LET ids == SidebarDocIds(sidebars)
    IN  /\ \A i, j \in 1..Len(ids) : ids[i] = ids[j] => i = j
        /\ Len(ids) = 12
        /\ ids[1] = "about_nalgebra"
        /\ ids[Len(ids)] = "faq"
        /\ { ids[i] : i \in 2..(Len(ids) - 1) } =
              { UserGuideItems[i].id : i \in 1..Len(UserGuideItems) }
        /\ Len(UserGuideItems) = 10
        /\ "user_guide/quick_reference" \notin Range(ids)
        /\ Cardinality({ ids[i] : i \in 1..sbIdx }) = sbIdx

\* C19 witness: the build has walked the whole sidebar tree.
C19_SidebarWalked ==
    /\ sbIdx = Len(SidebarDocIds(sidebars))
    /\ sbIdx > 0
    /\ loaded = ContentFiles

C21_InstancesDoNotCollide ==
    /\ Cardinality(DocsInstances) = 2
    /\ \A a, b \in DocsInstances :
         a # b => /\ a.id # b.id
                  /\ a.path # b.path
                  /\ a.routeBasePath # b.routeBasePath
                  /\ a.sidebarPath # b.sidebarPath
    /\ presetDocs.path = "docs" /\ presetDocs.routeBasePath = "docs"
    /\ presetDocs.sidebarPath = "./sidebar_docs.js"
    /\ communityPlugin.path = "community" /\ communityPlugin.routeBasePath = "community"
    /\ communityPlugin.sidebarPath = "./sidebar_community.js"
    /\ Cardinality(servedBy) <= 1
    /\ compiled # << >> => Cardinality(compiled[1].owners) = 1
    /\ \A i \in 1..Len(navbarItems) :
         navbarItems[i].label = "Community" =>
            /\ navbarItems[i].type = "to"
            /\ navbarItems[i].target = "/" \o communityPlugin.routeBasePath
            /\ navbarItems[i].activeBaseRegex =
                  "/" \o communityPlugin.routeBasePath \o "/"
            /\ location = navbarItems[i].target => servedBy = { communityPlugin.id }

\* C21 witness: a reader reached the community route base by the navbar item
\* 'Community', after a content file of the docs was compiled.
C21_CommunityReached ==
    /\ location = "/community"
    /\ servedBy = { "community" }
    /\ compiled # << >>
    /\ compiled[1].owners = { "default" }

\* C22 (SpecPlugins): every content file with $-delimited math is compiled
\* by one docs instance that is configured with both remark-math and
\* rehype-katex, so its math comes out typeset; that instance is the preset
\* one, which reads decompositions_and_lapack; the stylesheets of the site
\* hold the KaTeX stylesheet URL; and the 'community' instance has neither
\* math plugin.
C22_MathPagesTypeset ==
    /\ \A f \in KnownContentFiles :
         HasMath(f) =>
            \A id \in Owners(f) :
                /\ math \in Range(Instance(id).remarkPlugins)
                /\ katex \in Range(Instance(id).rehypePlugins)
    /\ (compiled # << >> /\ compiled[1].hasMath) =>
            /\ compiled[1].owners = { presetDocs.id }
            /\ compiled[1].out = "typeset"
    /\ presetDocs.remarkPlugins = << math >>
    /\ presetDocs.rehypePlugins = << katex >>
    /\ presetDocs.path = ContentRoot("docs/user_guide/decompositions_and_lapack.mdx")
    /\ HasMath("docs/user_guide/decompositions_and_lapack.mdx")
    /\ Range(stylesheets) \cap KatexStylesheets # { }
    /\ communityPlugin.remarkPlugins = << >>
    /\ communityPlugin.rehypePlugins = << >>

\* C22 witness: decompositions_and_lapack, which holds math, was compiled by
\* the preset docs instance.
C22_DecompositionsCompiled ==
    /\ compiled # << >>
    /\ compiled[1].file = "docs/user_guide/decompositions_and_lapack.mdx"
    /\ compiled[1].hasMath
    /\ compiled[1].owners = { "default" }

=============================================================================
